---- MODULE Spec2Model ----
(***************************************************************************)
(* Model of scripts/fetch_all.py, the zakat calculator data pipeline:      *)
(* FX table construction, per-company balance-sheet classification,        *)
(* currency normalisation, the clamped percentage, and the per-holding     *)
(* and fund-level results.                                                 *)
(*                                                                         *)
(* Numbers.  Python floats are modelled as exact rationals <<n, d>> in     *)
(* lowest terms with d > 0.  Two values with d = 0 stand for Python's      *)
(* None (<<0, 0>>) and float NaN (<<1, 0>>), so that every numeric slot    *)
(* has one shape.  IEEE-754 rounding of the individual operations is not   *)
(* modelled; round(x, 4) is modelled as decimal rounding to 4 places.      *)
(*                                                                         *)
(* Dictionaries are functions over a set of string keys; d.get(k, v) is    *)
(* Get(d, k, v).  The empty dict is << >>.                                 *)
(***************************************************************************)
EXTENDS Integers, Sequences, FiniteSets, TLC

\* ------------------------------------------------------------------------
\* Rational arithmetic
\* ------------------------------------------------------------------------

None == <<0, 0>>

NaN == <<1, 0>>

Abs(i) == IF i < 0 THEN -i ELSE i

RECURSIVE GCD(_, _)
GCD(a, b) == IF b = 0 THEN a ELSE GCD(b, a % b)

Norm(n, d) ==
    LET g == GCD(Abs(n), Abs(d))
        s == IF d < 0 THEN -1 ELSE 1
    IN  <<(s * n) \div g, (s * d) \div g>>

R(i) == <<i, 1>>

Q(n, d) == Norm(n, d)

RAdd(a, b) == Norm(a[1] * b[2] + b[1] * a[2], a[2] * b[2])

RSub(a, b) == Norm(a[1] * b[2] - b[1] * a[2], a[2] * b[2])

RMul(a, b) == Norm(a[1] * b[1], a[2] * b[2])

\* a / b for b # 0
RDiv(a, b) == Norm(a[1] * b[2], a[2] * b[1])

RLess(a, b) == a[1] * b[2] < b[1] * a[2]

RLeq(a, b) == a[1] * b[2] <= b[1] * a[2]

\* Python max(a, b): the first argument unless the second is greater
RMax(a, b) == IF RLess(a, b) THEN b ELSE a

\* Python min(a, b): the first argument unless the second is smaller
RMin(a, b) == IF RLess(b, a) THEN b ELSE a

IsNumber(v) == v[2] # 0

\* Python truthiness of a number or None: None and 0 are falsy
Truthy(v) == IsNumber(v) /\ v[1] # 0

\* x or y
Or(x, y) == IF Truthy(x) THEN x ELSE y

\* round(x, ndigits): nearest multiple of 10^-ndigits, ties to even
RoundTo(x, scale) ==
    LET m   == x[1] * scale
        fl  == m \div x[2]
        rem == m % x[2]
        up  == \/ 2 * rem > x[2]
               \/ (2 * rem = x[2] /\ fl % 2 = 1)
    IN  Norm(IF up THEN fl + 1 ELSE fl, scale)

Round4(x) == RoundTo(x, 10000)

\* ------------------------------------------------------------------------
\* Dictionaries
\* ------------------------------------------------------------------------

Get(d, k, default) == IF k \in DOMAIN d THEN d[k] ELSE default

EmptyDict == << >>

\* d with d[k] = v added or replaced
Put(d, k, v) == [x \in (DOMAIN d) \cup {k} |-> IF x = k THEN v ELSE d[x]]

\* ------------------------------------------------------------------------
\* 1. FX rates
\* ------------------------------------------------------------------------

\* fetch_fx_rates, after the HTTP response was accepted: the API's table
\* (units per 1 USD) with the two pence codes added, 100p = 1 GBP
fetch_fx_rates(rates) ==
    LET gbp_rate == Get(rates, "GBP", R(1))
    IN  Put(Put(rates, "GBp", RMul(gbp_rate, R(100))),
            "GBX", RMul(gbp_rate, R(100)))

\* ------------------------------------------------------------------------
\* 2. Balance sheet fetcher
\* ------------------------------------------------------------------------

\* safe_get's derived spelling of a field name: a space before every upper
\* case letter but the first ("Receivables", "Inventory", "Inventories"
\* have none and stay as they are)
Spaced(name) ==
    CASE name = "CashCashEquivalentsAndShortTermInvestments" ->
           "Cash Cash Equivalents And Short Term Investments"
      [] name = "CashAndCashEquivalents" ->
           "Cash And Cash Equivalents"
      [] name = "CashEquivalents" ->
           "Cash Equivalents"
      [] name = "OtherShortTermInvestments" ->
           "Other Short Term Investments"
      [] name = "AvailableForSaleSecurities" ->
           "Available For Sale Securities"
      [] name = "AccountsReceivable" ->
           "Accounts Receivable"
      [] name = "NetReceivables" ->
           "Net Receivables"
      [] name = "OtherCurrentAssets" ->
           "Other Current Assets"
      [] name = "PrepaidAssets" ->
           "Prepaid Assets"
      [] name = "InvestmentsAndAdvances" ->
           "Investments And Advances"
      [] name = "InvestmentinFinancialAssets" ->
           "Investmentin Financial Assets"
      [] name = "NonCurrentDeferredTaxesAssets" ->
           "Non Current Deferred Taxes Assets"
      [] name = "NonCurrentDeferredAssets" ->
           "Non Current Deferred Assets"
      [] name = "NonCurrentAccountsReceivable" ->
           "Non Current Accounts Receivable"
      [] name = "AccountsPayable" ->
           "Accounts Payable"
      [] name = "CurrentDebt" ->
           "Current Debt"
      [] name = "CurrentDebtAndCapitalLeaseObligation" ->
           "Current Debt And Capital Lease Obligation"
      [] name = "CurrentCapitalLeaseObligation" ->
           "Current Capital Lease Obligation"
      [] name = "CurrentAccruedExpenses" ->
           "Current Accrued Expenses"
      [] name = "TotalTaxPayable" ->
           "Total Tax Payable"
      [] name = "IncomeTaxPayable" ->
           "Income Tax Payable"
      [] name = "TaxesPayable" ->
           "Taxes Payable"
      [] OTHER -> name

\* safe_get's test of one value: present and not NaN
Usable(val) == val # None /\ val # NaN

\* safe_get(series, *field_names, default=0.0): the first usable value
\* under a field name or its spaced spelling, in the order given
RECURSIVE safe_get_from(_, _, _, _)
safe_get_from(series, field_names, i, default) ==
    IF i > Len(field_names) THEN default
    ELSE LET name   == field_names[i]
             spaced == Spaced(name)
         IN  IF name \in DOMAIN series /\ Usable(series[name])
             THEN series[name]
             ELSE IF spaced # name /\ spaced \in DOMAIN series
                     /\ Usable(series[spaced])
                  THEN series[spaced]
                  ELSE safe_get_from(series, field_names, i + 1, default)

safe_get(series, field_names) == safe_get_from(series, field_names, 1, R(0))

\* fetch_company, the resolved line items of the latest column
cash_sti_of(latest) ==
    LET combined ==
            safe_get(latest, <<"CashCashEquivalentsAndShortTermInvestments">>)
    IN  IF combined = R(0)
        THEN RAdd(safe_get(latest, <<"CashAndCashEquivalents",
                                     "CashEquivalents">>),
                  safe_get(latest, <<"OtherShortTermInvestments",
                                     "AvailableForSaleSecurities">>))
        ELSE combined

receivables_of(latest) ==
    safe_get(latest, <<"Receivables", "AccountsReceivable", "NetReceivables">>)

inventory_of(latest) == safe_get(latest, <<"Inventory", "Inventories">>)

other_current_of(latest) ==
    safe_get(latest, <<"OtherCurrentAssets", "PrepaidAssets">>)

nc_investments_of(latest) ==
    safe_get(latest, <<"InvestmentsAndAdvances", "InvestmentinFinancialAssets">>)

nc_deferred_tax_asset_of(latest) ==
    safe_get(latest, <<"NonCurrentDeferredTaxesAssets",
                       "NonCurrentDeferredAssets">>)

nc_receivables_of(latest) ==
    safe_get(latest, <<"NonCurrentAccountsReceivable">>)

payables_of(latest) == safe_get(latest, <<"AccountsPayable">>)

current_debt_of(latest) ==
    LET dedicated == safe_get(latest, <<"CurrentDebt">>)
        combined  == safe_get(latest, <<"CurrentDebtAndCapitalLeaseObligation">>)
        lease     == safe_get(latest, <<"CurrentCapitalLeaseObligation">>)
    IN  IF dedicated = R(0)
        THEN RMax(RSub(combined, lease), R(0))
        ELSE dedicated

accrued_of(latest) == safe_get(latest, <<"CurrentAccruedExpenses">>)

taxes_of(latest) ==
    safe_get(latest, <<"TotalTaxPayable", "IncomeTaxPayable", "TaxesPayable">>)

\* all_zero taking accrued expenses and taxes payable for core line items
all_zero_with_accrued(latest) ==
    /\ cash_sti_of(latest) = R(0)
    /\ receivables_of(latest) = R(0)
    /\ inventory_of(latest) = R(0)
    /\ other_current_of(latest) = R(0)
    /\ payables_of(latest) = R(0)
    /\ current_debt_of(latest) = R(0)
    /\ accrued_of(latest) = R(0)
    /\ taxes_of(latest) = R(0)

\* fetch_company's test for a balance sheet that is all zero / all NaN
all_zero(latest) ==
    /\ cash_sti_of(latest) = R(0)
    /\ receivables_of(latest) = R(0)
    /\ inventory_of(latest) = R(0)
    /\ other_current_of(latest) = R(0)
    /\ payables_of(latest) = R(0)
    /\ current_debt_of(latest) = R(0)

\* fetch_company, the market data read from info
market_data(ticker_symbol, info) ==
    LET cap0   == Or(Get(info, "marketCap", None), R(0))
        trade  == Get(info, "currency", "USD")
        price  == Or(Get(info, "currentPrice", None),
                     Or(Get(info, "previousClose", None), R(0)))
        shares == Or(Get(info, "sharesOutstanding", None), R(0))
    IN  [ticker |-> ticker_symbol,
         market_cap |-> IF ~Truthy(cap0) /\ Truthy(shares) /\ Truthy(price)
                        THEN RMul(shares, price) ELSE cap0,
         trading_currency |-> trade,
         financial_currency |-> Get(info, "financialCurrency", trade),
         current_price |-> price]

\* fetch_company(ticker_symbol) for what the data source holds: info (the
\* empty dict when reading it raised), the quarterly and the annual balance
\* sheet's latest column (the empty dict when the sheet is None, empty or
\* reading it raised)
fetch_company(ticker_symbol, info, quarterly, annual) ==
    LET md     == market_data(ticker_symbol, info)
        latest == IF quarterly # EmptyDict THEN quarterly ELSE annual
        gross_zakaatable ==
            RAdd(RAdd(cash_sti_of(latest), receivables_of(latest)),
                 RAdd(inventory_of(latest), other_current_of(latest)))
        nc_liquid_total ==
            RAdd(RAdd(nc_investments_of(latest),
                      nc_deferred_tax_asset_of(latest)),
                 nc_receivables_of(latest))
        gross_zakaatable_broad == RAdd(gross_zakaatable, nc_liquid_total)
        total_deductions ==
            RAdd(RAdd(payables_of(latest), current_debt_of(latest)),
                 RAdd(accrued_of(latest), taxes_of(latest)))
    IN  IF latest = EmptyDict
        THEN md @@ [error |-> "No balance sheet data available",
                    zakaatable_pct |-> R(25),
                    fallback |-> TRUE]
        ELSE IF all_zero(latest)
        THEN md @@ [error |-> "Balance sheet data all empty/NaN",
                    zakaatable_pct |-> R(25),
                    fallback |-> TRUE]
        ELSE md @@
             [bs_type |-> IF quarterly # EmptyDict THEN "quarterly"
                          ELSE "annual",
              assets |-> [cash_and_sti |-> cash_sti_of(latest),
                          receivables |-> receivables_of(latest),
                          inventory |-> inventory_of(latest),
                          other_current |-> other_current_of(latest),
                          total |-> gross_zakaatable],
              assets_broad |-> [nc_investments |-> nc_investments_of(latest),
                                nc_deferred_tax_asset |->
                                    nc_deferred_tax_asset_of(latest),
                                nc_receivables |-> nc_receivables_of(latest),
                                nc_liquid_total |-> nc_liquid_total,
                                total |-> gross_zakaatable_broad],
              liabilities |-> [payables |-> payables_of(latest),
                               current_debt |-> current_debt_of(latest),
                               accrued_expenses |-> accrued_of(latest),
                               taxes_payable |-> taxes_of(latest),
                               total |-> total_deductions],
              net_zakaatable |->
                  RMax(RSub(gross_zakaatable, total_deductions), R(0)),
              net_zakaatable_broad |->
                  RMax(RSub(gross_zakaatable_broad, total_deductions), R(0)),
              net_zakaatable_assets_only |-> gross_zakaatable_broad,
              error |-> "None",
              fallback |-> FALSE]

\* fetch_all_balance_sheets, the record stored when fetch_company raised
exception_record(t, message) ==
    [ticker |-> t, error |-> message, zakaatable_pct |-> R(25),
     fallback |-> TRUE]

\* ------------------------------------------------------------------------
\* 3. Zakat computation
\* ------------------------------------------------------------------------

FallbackPct == R(25)

\* mcap_curr_of with the test for a pence code lost: always GBP
mcap_curr_of_always_gbp(trade_curr) == "GBP"

\* _convert_and_calc_pct, the market cap currency: the trading currency
\* with the pence codes collapsed to GBP
mcap_curr_of(trade_curr) ==
    IF trade_curr \in {"GBp", "GBX"} THEN "GBP" ELSE trade_curr

\* convert_net_val without the division by the financial currency's rate
convert_net_val_no_base(net_val, fin_curr, trade_curr, fx_rates) ==
    LET mcap_curr == mcap_curr_of(trade_curr)
        fin_rate  == Get(fx_rates, fin_curr, R(1))
        mcap_rate == Get(fx_rates, mcap_curr, R(1))
    IN  IF fin_curr # mcap_curr
        THEN IF RLess(R(0), fin_rate) /\ RLess(R(0), mcap_rate)
             THEN RMul(net_val, mcap_rate)
             ELSE net_val
        ELSE net_val

\* convert_net_val with 0 for the rate of a code the table lacks
convert_net_val_unknown_zero(net_val, fin_curr, trade_curr, fx_rates) ==
    LET mcap_curr == mcap_curr_of(trade_curr)
        fin_rate  == Get(fx_rates, fin_curr, R(0))
        mcap_rate == Get(fx_rates, mcap_curr, R(0))
    IN  IF fin_curr # mcap_curr
        THEN IF RLess(R(0), fin_rate) /\ RLess(R(0), mcap_rate)
             THEN RMul(RDiv(net_val, fin_rate), mcap_rate)
             ELSE net_val
        ELSE net_val

\* _convert_and_calc_pct, the conversion step: net_val moved from the
\* financial currency to the market cap currency
convert_net_val(net_val, fin_curr, trade_curr, fx_rates) ==
    LET mcap_curr == mcap_curr_of(trade_curr)
        fin_rate  == Get(fx_rates, fin_curr, R(1))
        mcap_rate == Get(fx_rates, mcap_curr, R(1))
    IN  IF fin_curr # mcap_curr
        THEN IF RLess(R(0), fin_rate) /\ RLess(R(0), mcap_rate)
             THEN RMul(RDiv(net_val, fin_rate), mcap_rate)
             ELSE net_val
        ELSE net_val

\* clamp_pct without the clamp: the percentage is only rounded
clamp_pct_unclamped(pct) == Round4(pct)

\* the clamp and rounding of _convert_and_calc_pct's last line
clamp_pct(pct) == Round4(RMax(R(0), RMin(pct, R(100))))

\* _convert_and_calc_pct giving the ratio, not the ratio times 100
_convert_and_calc_pct_as_ratio(net_val, market_cap, fin_curr, trade_curr, fx_rates) ==
    LET converted == convert_net_val(net_val, fin_curr, trade_curr, fx_rates)
    IN  clamp_pct(RDiv(converted, market_cap))

\* _convert_and_calc_pct; market_cap is not zero where the code calls it
_convert_and_calc_pct(net_val, market_cap, fin_curr, trade_curr, fx_rates) ==
    LET converted == convert_net_val(net_val, fin_curr, trade_curr, fx_rates)
        pct       == RMul(RDiv(converted, market_cap), R(100))
    IN  clamp_pct(pct)

\* is_fallback with the test lost: no record is taken for a fallback record
is_fallback_never(company_data) == FALSE

\* compute_zakaatable_pcts, its first test: the record is a fallback record
is_fallback(company_data) == Get(company_data, "fallback", FALSE)

\* degenerate_market_cap testing for a missing or zero market cap only
degenerate_market_cap_zero_only(market_cap) == ~Truthy(market_cap)

\* compute_zakaatable_pcts, its second test: no ratio can be formed
degenerate_market_cap(market_cap) ==
    ~Truthy(market_cap) \/ RLeq(market_cap, R(0))

\* compute_zakaatable_pcts.  The result carries the three percentages and
\* divisions, the number of times the division by market_cap of
\* _convert_and_calc_pct was executed during the call.
compute_zakaatable_pcts(company_data, fx_rates) ==
    IF is_fallback(company_data)
    THEN LET fb == Get(company_data, "zakaatable_pct", FallbackPct)
         IN  [strict |-> fb, broad |-> fb, assets_only |-> fb,
              divisions |-> 0]
    ELSE
    LET market_cap == Get(company_data, "market_cap", R(0))
    IN  IF degenerate_market_cap(market_cap)
        THEN [strict |-> FallbackPct, broad |-> FallbackPct,
              assets_only |-> FallbackPct, divisions |-> 0]
        ELSE
        LET fin_curr    == Get(company_data, "financial_currency", "USD")
            trade_curr  == Get(company_data, "trading_currency", "USD")
            net_strict  == Get(company_data, "net_zakaatable", R(0))
            net_broad   == Get(company_data, "net_zakaatable_broad",
                               net_strict)
            assets_only ==
                Get(company_data, "net_zakaatable_assets_only",
                    Get(Get(company_data, "assets_broad", EmptyDict),
                        "total",
                        Get(Get(company_data, "assets", EmptyDict),
                            "total", net_broad)))
        IN  [strict |-> _convert_and_calc_pct(net_strict, market_cap,
                            fin_curr, trade_curr, fx_rates),
             broad |-> _convert_and_calc_pct(net_broad, market_cap,
                            fin_curr, trade_curr, fx_rates),
             assets_only |-> _convert_and_calc_pct(assets_only, market_cap,
                            fin_curr, trade_curr, fx_rates),
             divisions |-> 3]

\* compute_pension_data / compute_isa_data, the fields of a per-holding
\* entry that are copied from the balance sheet record
copied_fields(bs_data) ==
    [fallback |-> Get(bs_data, "fallback", TRUE),
     error |-> Get(bs_data, "error", "None"),
     market_cap |-> Get(bs_data, "market_cap", R(0)),
     financial_currency |-> Get(bs_data, "financial_currency", "USD"),
     assets |-> Get(bs_data, "assets", EmptyDict),
     assets_broad |-> Get(bs_data, "assets_broad", EmptyDict),
     liabilities |-> Get(bs_data, "liabilities", EmptyDict),
     net_zakaatable |-> Get(bs_data, "net_zakaatable", R(0)),
     net_zakaatable_broad |-> Get(bs_data, "net_zakaatable_broad", R(0)),
     net_zakaatable_assets_only |->
         Get(bs_data, "net_zakaatable_assets_only",
             Get(Get(bs_data, "assets_broad", EmptyDict), "total",
                 Get(Get(bs_data, "assets", EmptyDict), "total", R(0))))]

\* compute_pension_data, the body of the loop over the holdings: the entry
\* appended for holding h
pension_entry(h, balance_sheets, fx_rates) ==
    LET bs_data == Get(balance_sheets, h.ticker, EmptyDict)
        pcts    == compute_zakaatable_pcts(bs_data, fx_rates)
    IN  [ticker |-> h.ticker,
         weight |-> h.weight,
         zakaatable_pct |-> pcts.strict,
         zakaatable_pct_broad |-> pcts.broad,
         zakaatable_pct_assets_only |-> pcts.assets_only,
         trading_currency |-> Get(bs_data, "trading_currency", "USD")]
        @@ copied_fields(bs_data)

\* weighted_sum with each term assigned to the total instead of added to it
weighted_sum_overwrite(results, key, i, acc) ==
    IF Len(results) = 0 THEN acc
    ELSE RDiv(RMul(results[Len(results)].weight, results[Len(results)][key]),
              R(100))

\* compute_pension_data, the loop over the holdings: results, an entry
\* appended per holding in the order of the list
RECURSIVE pension_results(_, _, _, _, _)
pension_results(holdings, balance_sheets, fx_rates, i, acc) ==
    IF i > Len(holdings) THEN acc
    ELSE pension_results(holdings, balance_sheets, fx_rates, i + 1,
             Append(acc, pension_entry(holdings[i], balance_sheets,
                                       fx_rates)))

\* sum(r["weight"] * r[key] / 100 for r in results): a left fold from 0
RECURSIVE weighted_sum(_, _, _, _)
weighted_sum(results, key, i, acc) ==
    IF i > Len(results) THEN acc
    ELSE weighted_sum(results, key, i + 1,
             RAdd(acc, RDiv(RMul(results[i].weight, results[i][key]),
                            R(100))))

\* fund_pct capped at 100
fund_pct_capped(results, key, cash_contrib) ==
    RMin(RAdd(weighted_sum(results, key, 1, R(0)), cash_contrib), R(100))

\* compute_pension_data, one fund-level percentage before rounding
fund_pct(results, key, cash_contrib) ==
    RAdd(weighted_sum(results, key, 1, R(0)), cash_contrib)

\* compute_pension_data, the fund-level part of pension_data
fund_level(results, fund_cash_pct) ==
    [fund_cash_pct |-> fund_cash_pct,
     fund_zakaatable_pct |->
         Round4(fund_pct(results, "zakaatable_pct", fund_cash_pct)),
     fund_zakaatable_pct_broad |->
         Round4(fund_pct(results, "zakaatable_pct_broad", fund_cash_pct)),
     fund_zakaatable_pct_assets_only |->
         Round4(fund_pct(results, "zakaatable_pct_assets_only",
                         fund_cash_pct))]

\* isa_price_gbp without the replacement for a pence-quoted ticker
isa_price_gbp_by_table(bs_data, fx_rates) ==
    LET current_price == Get(bs_data, "current_price", R(0))
        trade_curr    == Get(bs_data, "trading_currency", "USD")
        gbp_rate      == Get(fx_rates, "GBP", R(1))
        trade_rate    == Get(fx_rates, trade_curr, R(1))
    IN  IF RLess(R(0), trade_rate)
        THEN RMul(RDiv(current_price, trade_rate), gbp_rate)
        ELSE R(0)

\* compute_isa_data, the local price_gbp: the price converted to GBP by the
\* rate table, then replaced by price / 100 for a pence-quoted ticker
isa_price_gbp(bs_data, fx_rates) ==
    LET current_price == Get(bs_data, "current_price", R(0))
        trade_curr    == Get(bs_data, "trading_currency", "USD")
        gbp_rate      == Get(fx_rates, "GBP", R(1))
        trade_rate    == Get(fx_rates, trade_curr, R(1))
        initial       == R(0)
        by_table      == IF RLess(R(0), trade_rate)
                         THEN RMul(RDiv(current_price, trade_rate), gbp_rate)
                         ELSE initial
    IN  IF trade_curr \in {"GBp", "GBX"}
        THEN RDiv(current_price, R(100))
        ELSE by_table

\* compute_isa_data, the body of the loop over the holdings
isa_entry(h, balance_sheets, fx_rates) ==
    LET bs_data == Get(balance_sheets, h.ticker, EmptyDict)
        pcts    == compute_zakaatable_pcts(bs_data, fx_rates)
    IN  [ticker |-> h.ticker,
         zakaatable_pct |-> pcts.strict,
         zakaatable_pct_broad |-> pcts.broad,
         zakaatable_pct_assets_only |-> pcts.assets_only,
         current_price |-> Get(bs_data, "current_price", R(0)),
         price_gbp |-> Round4(isa_price_gbp(bs_data, fx_rates)),
         trading_currency |-> Get(bs_data, "trading_currency", "USD")]
        @@ copied_fields(bs_data)

\* compute_isa_data, the loop over the holdings
RECURSIVE isa_loop(_, _, _, _, _)
isa_loop(holdings, balance_sheets, fx_rates, i, acc) ==
    IF i > Len(holdings) THEN acc
    ELSE isa_loop(holdings, balance_sheets, fx_rates, i + 1,
             Append(acc, isa_entry(holdings[i], balance_sheets, fx_rates)))

\* main: list(dict.fromkeys(...)), the list without its repeated elements,
\* first occurrences kept in order
RECURSIVE dedupe(_, _, _)
dedupe(list, i, acc) ==
    IF i > Len(list) THEN acc
    ELSE dedupe(list, i + 1,
                IF \E j \in 1..Len(acc) : acc[j] = list[i]
                THEN acc ELSE Append(acc, list[i]))

\* main: the tickers of the fund holdings, then those of the ISA holdings
all_tickers(fund, isa) ==
    dedupe([i \in 1..Len(fund) |-> fund[i].ticker]
               \o [i \in 1..Len(isa) |-> isa[i].ticker],
           1, << >>)

\* ------------------------------------------------------------------------
\* Inputs
\* ------------------------------------------------------------------------

\* the longest list of fund holdings
MaxHoldings == 2

\* the longest list of ISA holdings
MaxIsaHoldings == 1

Tickers == {"AAA", "BBB"}

Weights == {R(60), R(30)}

CashPcts == {R(10)}

\* the sequences over S of length at most n
SeqUpTo(S, n) == UNION {[1..k -> S] : k \in 0..n}

\* rate tables the API can answer with: units per 1 USD; GBP may be
\* missing or zero, EUR may be negative
ApiRates ==
    { [USD |-> R(1), EUR |-> Q(9, 10)],
      [USD |-> R(1), EUR |-> Q(9, 10), GBP |-> R(0)],
      [USD |-> R(1), EUR |-> Q(9, 10), GBP |-> Q(4, 5)],
      [USD |-> R(1), EUR |-> Q(-9, 10), GBP |-> Q(4, 5)] }

FxTables == {fetch_fx_rates(rates) : rates \in ApiRates}

\* what the data source holds for one ticker: raises is TRUE when
\* fetch_company raises; otherwise info and the two balance sheets
Source(raises, info, quarterly, annual) ==
    [raises |-> raises, info |-> info, quarterly |-> quarterly,
     annual |-> annual]

\* the data source answers the pipeline draws from
PipelineSources ==
    { Source(TRUE, EmptyDict, EmptyDict, EmptyDict),
      Source(FALSE, [marketCap |-> R(1000), currency |-> "USD"],
             EmptyDict, EmptyDict),
      Source(FALSE, [marketCap |-> R(1000), currency |-> "USD"],
             [CurrentAccruedExpenses |-> R(8)], EmptyDict),
      Source(FALSE, [marketCap |-> R(1000), currency |-> "USD",
                     financialCurrency |-> "USD", currentPrice |-> R(50)],
             [CashCashEquivalentsAndShortTermInvestments |-> R(100),
              Receivables |-> R(20), AccountsPayable |-> R(30)],
             EmptyDict),
      Source(FALSE, [currency |-> "USD"],
             [CashCashEquivalentsAndShortTermInvestments |-> R(100)],
             EmptyDict),
      Source(FALSE, [marketCap |-> R(500), currency |-> "GBp",
                     financialCurrency |-> "GBP",
                     currentPrice |-> R(12345)],
             EmptyDict,
             [CashAndCashEquivalents |-> R(250)]),
      Source(FALSE, [marketCap |-> R(500), currency |-> "GBX",
                     financialCurrency |-> "EUR",
                     previousClose |-> Q(31, 250)],
             [Inventory |-> R(45), CurrentDebt |-> R(90)],
             EmptyDict) }

\* fetch_all_balance_sheets, the body of the loop: the record stored for
\* ticker t
fetch_one(t, src) ==
    IF src.raises
    THEN exception_record(t, "fetch failed")
    ELSE fetch_company(t, src.info, src.quarterly, src.annual)

\* ------------------------------------------------------------------------
\* The pipeline (main)
\* ------------------------------------------------------------------------

VARIABLES
    pc,              \* where main is
    fund_holdings,   \* fund_holdings.json: holdings and fund_cash_pct
    isa_holdings,    \* isa_holdings.json: the list of holdings
    tickers,         \* all_tickers
    fx_rates,        \* the rate table
    sources,         \* what the data source answered, per fetched ticker
    balance_sheets,  \* results of fetch_all_balance_sheets
    results,         \* compute_pension_data: results
    pension_data,    \* compute_pension_data: the fund-level result
    isa_results,     \* compute_isa_data: results
    price_gbp,       \* compute_isa_data: the local price_gbp, per holding
    pcts,            \* compute_pension_data: what compute_zakaatable_pcts
                     \* returned, per holding
    conv             \* the conversion step applied on its own

vars == <<pc, fund_holdings, isa_holdings, tickers, fx_rates, sources,
          balance_sheets, results, pension_data, isa_results, price_gbp,
          pcts, conv>>

\* the conversion step is not being exercised
ConvIdle == [at |-> "idle"]

Holdings == {[ticker |-> t, weight |-> w] : t \in Tickers, w \in Weights}

IsaHoldings == {[ticker |-> t] : t \in Tickers}

Init ==
    /\ pc = "fx"
    /\ fund_holdings \in
           {[holdings |-> hs, fund_cash_pct |-> c] :
                hs \in SeqUpTo(Holdings, MaxHoldings), c \in CashPcts}
    /\ isa_holdings \in SeqUpTo(IsaHoldings, MaxIsaHoldings)
    /\ tickers = all_tickers(fund_holdings.holdings, isa_holdings)
    /\ fx_rates = EmptyDict
    /\ sources = EmptyDict
    /\ balance_sheets = EmptyDict
    /\ results = << >>
    /\ pension_data = EmptyDict
    /\ isa_results = << >>
    /\ price_gbp = << >>
    /\ pcts = << >>
    /\ conv = ConvIdle

\* fetch_fx_rates answered
FetchFxRates ==
    /\ pc = "fx"
    /\ \E rates \in ApiRates : fx_rates' = fetch_fx_rates(rates)
    /\ pc' = "fetch"
    /\ UNCHANGED <<fund_holdings, isa_holdings, tickers, sources,
                   balance_sheets, results, pension_data, isa_results,
                   price_gbp, pcts, conv>>

\* fetch_fx_rates raised (HTTP error or result # "success"): main ends
FetchFxRatesRaises ==
    /\ pc = "fx"
    /\ pc' = "aborted"
    /\ UNCHANGED <<fund_holdings, isa_holdings, tickers, fx_rates, sources,
                   balance_sheets, results, pension_data, isa_results,
                   price_gbp, pcts, conv>>

\* fetch_all_balance_sheets: one turn of the loop over the tickers, the
\* data source answering from the set Answers
FetchTickerFrom(Answers) ==
    /\ pc = "fetch"
    /\ Cardinality(DOMAIN balance_sheets) < Len(tickers)
    /\ LET t == tickers[Cardinality(DOMAIN balance_sheets) + 1]
       IN  \E src \in Answers :
               /\ sources' = Put(sources, t, src)
               /\ balance_sheets' = Put(balance_sheets, t, fetch_one(t, src))
    /\ UNCHANGED <<pc, fund_holdings, isa_holdings, tickers, fx_rates,
                   results, pension_data, isa_results, price_gbp, pcts,
                   conv>>

FetchTicker == FetchTickerFrom(PipelineSources)

\* fetch_all_balance_sheets returns
FetchReturns ==
    /\ pc = "fetch"
    /\ Cardinality(DOMAIN balance_sheets) = Len(tickers)
    /\ pc' = "pension"
    /\ UNCHANGED <<fund_holdings, isa_holdings, tickers, fx_rates, sources,
                   balance_sheets, results, pension_data, isa_results,
                   price_gbp, pcts, conv>>

\* compute_pension_data: the loop over the holdings and the fund-level
\* percentages
ComputePension ==
    /\ pc = "pension"
    /\ results' = pension_results(fund_holdings.holdings, balance_sheets,
                                  fx_rates, 1, << >>)
    /\ pcts' = [i \in 1..Len(fund_holdings.holdings) |->
                   compute_zakaatable_pcts(
                       Get(balance_sheets, fund_holdings.holdings[i].ticker,
                           EmptyDict), fx_rates)]
    /\ pension_data' = fund_level(results', fund_holdings.fund_cash_pct)
    /\ pc' = "isa"
    /\ UNCHANGED <<fund_holdings, isa_holdings, tickers, fx_rates, sources,
                   balance_sheets, isa_results, price_gbp, conv>>

\* compute_isa_data: the loop over the holdings; the HTML pages are then
\* built from the results
ComputeIsa ==
    /\ pc = "isa"
    /\ isa_results' = isa_loop(isa_holdings, balance_sheets, fx_rates, 1,
                               << >>)
    /\ price_gbp' = [i \in 1..Len(isa_holdings) |->
                        isa_price_gbp(Get(balance_sheets,
                                          isa_holdings[i].ticker, EmptyDict),
                                      fx_rates)]
    /\ pc' = "done"
    /\ UNCHANGED <<fund_holdings, isa_holdings, tickers, fx_rates, sources,
                   balance_sheets, results, pension_data, pcts, conv>>

Next ==
    \/ FetchFxRates
    \/ FetchFxRatesRaises
    \/ FetchTicker
    \/ FetchReturns
    \/ ComputePension
    \/ ComputeIsa

Spec == Init /\ [][Next]_vars

\* ------------------------------------------------------------------------
\* One company through fetch_company and compute_zakaatable_pcts
\* ------------------------------------------------------------------------

\* the most fields a balance sheet column holds
MaxFields == 3

\* the fields a balance sheet column may hold, with the value reported
SheetFields ==
    << <<"CashCashEquivalentsAndShortTermInvestments", R(100)>>,
       <<"CashAndCashEquivalents", R(40)>>,
       <<"Other Short Term Investments", R(10)>>,
       <<"Receivables", NaN>>,
       <<"AccountsReceivable", R(20)>>,
       <<"OtherCurrentAssets", R(-50)>>,
       <<"InvestmentsAndAdvances", R(500)>>,
       <<"AccountsPayable", R(30)>>,
       <<"CurrentDebt", R(700)>>,
       <<"CurrentDebtAndCapitalLeaseObligation", R(25)>>,
       <<"CurrentCapitalLeaseObligation", R(60)>>,
       <<"CurrentAccruedExpenses", R(8)>>,
       <<"TotalTaxPayable", R(4)>> >>

\* the balance sheet column holding the fields numbered in S
SheetOf(S) ==
    [k \in {SheetFields[i][1] : i \in S} |->
        LET i == CHOOSE j \in S : SheetFields[j][1] = k
        IN  SheetFields[i][2]]

Sheets ==
    {SheetOf(S) : S \in {T \in SUBSET (1..Len(SheetFields)) :
                            Cardinality(T) <= MaxFields}}

\* info with the keys that have a value (None, "": the key is missing)
InfoOf(cap, currency, financial, price, shares) ==
    LET given == [marketCap |-> cap, currentPrice |-> price,
                  sharesOutstanding |-> shares]
        codes == [currency |-> currency, financialCurrency |-> financial]
    IN  [k \in {x \in DOMAIN given : given[x] # None}
               \cup {x \in DOMAIN codes : codes[x] # ""} |->
            IF k \in DOMAIN given THEN given[k] ELSE codes[k]]

Infos ==
    {InfoOf(cap, cur, fin, ps[1], ps[2]) :
        cap \in {None, R(-5), R(1000)},
        cur \in {"", "GBp", "EUR"},
        fin \in {"", "GBP"},
        ps \in {<<None, None>>, <<R(5), R(10)>>}}

CompanySources ==
    {Source(FALSE, info, sheet, EmptyDict) : info \in Infos, sheet \in Sheets}
    \cup {Source(FALSE, info, EmptyDict, [AccountsPayable |-> R(30)]) :
              info \in Infos}
    \cup {Source(TRUE, EmptyDict, EmptyDict, EmptyDict)}

\* one holding; the bundle is fetched for its ticker, or lacks it
InitCompany ==
    /\ pc = "fetch"
    /\ fund_holdings = [holdings |-> <<[ticker |-> "AAA", weight |-> R(60)]>>,
                        fund_cash_pct |-> R(10)]
    /\ isa_holdings = << >>
    /\ tickers \in {<<"AAA">>, << >>}
    /\ fx_rates \in FxTables
    /\ sources = EmptyDict
    /\ balance_sheets = EmptyDict
    /\ results = << >>
    /\ pension_data = EmptyDict
    /\ isa_results = << >>
    /\ price_gbp = << >>
    /\ pcts = << >>
    /\ conv = ConvIdle

FetchCompany == FetchTickerFrom(CompanySources)

NextCompany ==
    \/ FetchCompany
    \/ FetchReturns
    \/ ComputePension

SpecCompany == InitCompany /\ [][NextCompany]_vars

\* ------------------------------------------------------------------------
\* The fund-level percentages on their own
\* ------------------------------------------------------------------------

\* strict, broad and assets-only percentages of one holding
PctTriples ==
    { <<R(0), R(0), R(0)>>, <<R(9), R(12), R(15)>>, <<R(25), R(25), R(25)>>,
      <<R(50), R(50), R(100)>>, <<R(100), R(100), R(100)>> }

FundWeights == {R(0), R(10), R(30), R(60)}

FundCashPcts == {R(0), R(10), R(40)}

\* the fields of a per-holding entry that the fund-level percentages read
EntryOf(w, p) ==
    [weight |-> w, zakaatable_pct |-> p[1], zakaatable_pct_broad |-> p[2],
     zakaatable_pct_assets_only |-> p[3]]

\* compute_pension_data after its loop, for any list of entries
InitAggregate ==
    /\ pc = "aggregate"
    /\ results \in SeqUpTo({EntryOf(w, p) : w \in FundWeights,
                                             p \in PctTriples}, MaxHoldings)
    /\ fund_holdings \in
           {[holdings |-> [i \in 1..Len(results) |->
                              [ticker |-> "AAA", weight |-> results[i].weight]],
             fund_cash_pct |-> c] : c \in FundCashPcts}
    /\ isa_holdings = << >>
    /\ tickers = << >>
    /\ fx_rates = EmptyDict
    /\ sources = EmptyDict
    /\ balance_sheets = EmptyDict
    /\ pension_data = EmptyDict
    /\ isa_results = << >>
    /\ price_gbp = << >>
    /\ pcts = << >>
    /\ conv = ConvIdle

\* compute_pension_data: the fund-level percentages
Aggregate ==
    /\ pc = "aggregate"
    /\ pension_data' = fund_level(results, fund_holdings.fund_cash_pct)
    /\ pc' = "aggregated"
    /\ UNCHANGED <<fund_holdings, isa_holdings, tickers, fx_rates, sources,
                   balance_sheets, results, isa_results, price_gbp, pcts,
                   conv>>

NextAggregate == Aggregate

SpecAggregate == InitAggregate /\ [][NextAggregate]_vars

\* ------------------------------------------------------------------------
\* The conversion step on its own
\* ------------------------------------------------------------------------

Codes == {"USD", "GBP", "EUR", "GBp", "GBX", "JPY"}

Amounts == {R(0), R(100), R(-50), Q(1, 3)}

InitConvert ==
    /\ pc = "idle"
    /\ fund_holdings = [holdings |-> << >>, fund_cash_pct |-> R(0)]
    /\ isa_holdings = << >>
    /\ tickers = << >>
    /\ fx_rates \in FxTables
    /\ sources = EmptyDict
    /\ balance_sheets = EmptyDict
    /\ results = << >>
    /\ pension_data = EmptyDict
    /\ isa_results = << >>
    /\ price_gbp = << >>
    /\ pcts = << >>
    /\ conv \in {[at |-> "start", amount |-> x, fin_curr |-> a,
                  trade_curr |-> b, out |-> x, back |-> x] :
                     x \in Amounts, a \in Codes, b \in Codes}

\* the conversion step from fin_curr to the market cap currency of
\* trade_curr
Convert ==
    /\ conv.at = "start"
    /\ conv' = [conv EXCEPT !.at = "converted",
                   !.out = convert_net_val(conv.amount, conv.fin_curr,
                                           conv.trade_curr, fx_rates)]
    /\ UNCHANGED <<pc, fund_holdings, isa_holdings, tickers, fx_rates,
                   sources, balance_sheets, results, pension_data,
                   isa_results, price_gbp, pcts>>

\* the conversion step applied to the result, the two currencies exchanged
ConvertBack ==
    /\ conv.at = "converted"
    /\ conv' = [conv EXCEPT !.at = "back",
                   !.back = convert_net_val(conv.out, conv.trade_curr,
                                            conv.fin_curr, fx_rates)]
    /\ UNCHANGED <<pc, fund_holdings, isa_holdings, tickers, fx_rates,
                   sources, balance_sheets, results, pension_data,
                   isa_results, price_gbp, pcts>>

NextConvert ==
    \/ Convert
    \/ ConvertBack

SpecConvert == InitConvert /\ [][NextConvert]_vars

\* ------------------------------------------------------------------------
\* Properties
\* ------------------------------------------------------------------------

InRange(p) == RLeq(R(0), p) /\ RLeq(p, R(100))

\* the three percentages of one compute_zakaatable_pcts result are all p
AllThree(r, p) == r.strict = p /\ r.broad = p /\ r.assets_only = p

\* the record the i-th holding of the fund is computed from
RecordOf(i) ==
    Get(balance_sheets, fund_holdings.holdings[i].ticker, EmptyDict)

\* C1: each of the three percentages returned by compute_zakaatable_pcts,
\* for a fallback record, a full record or no record, lies in [0, 100].
C1_PercentagesInRange ==
    \A i \in 1..Len(pcts) :
        /\ InRange(pcts[i].strict)
        /\ InRange(pcts[i].broad)
        /\ InRange(pcts[i].assets_only)

\* C1 witness: a full record whose assets exceed the market cap and whose
\* liabilities exceed its current assets: the clamp acted at both ends.
C1_Witness ==
    \E i \in 1..Len(pcts) :
        /\ pcts[i].divisions = 3
        /\ RLess(RecordOf(i).market_cap,
                 RecordOf(i).net_zakaatable_assets_only)
        /\ pcts[i].assets_only = R(100)
        /\ pcts[i].strict = R(0)

\* the market cap of a record is absent, zero or negative
NoMarketCap(bs_data) ==
    \/ "market_cap" \notin DOMAIN bs_data
    \/ bs_data.market_cap = None
    \/ RLeq(bs_data.market_cap, R(0))

\* C2: when the record's market cap is absent, zero or negative,
\* compute_zakaatable_pcts returns 25.0 three times and has not divided by
\* the market cap.
C2_NoMarketCapGives25 ==
    \A i \in 1..Len(pcts) :
        NoMarketCap(RecordOf(i)) =>
            AllThree(pcts[i], R(25)) /\ pcts[i].divisions = 0

\* C2 witness: a record with balance sheet figures, not a fallback record,
\* and a negative market cap got 25.0.
C2_Witness ==
    \E i \in 1..Len(pcts) :
        /\ "fallback" \in DOMAIN RecordOf(i)
        /\ ~RecordOf(i).fallback
        /\ RLess(RecordOf(i).market_cap, R(0))
        /\ RLess(R(0), RecordOf(i).net_zakaatable)
        /\ AllThree(pcts[i], R(25))

\* the latest balance sheet column the data source holds for ticker t
LatestOf(t) ==
    IF sources[t].quarterly # EmptyDict THEN sources[t].quarterly
    ELSE sources[t].annual

\* the six core line items of a column all resolve to 0.0
SixCoreZero(latest) ==
    /\ cash_sti_of(latest) = R(0)
    /\ receivables_of(latest) = R(0)
    /\ inventory_of(latest) = R(0)
    /\ other_current_of(latest) = R(0)
    /\ payables_of(latest) = R(0)
    /\ current_debt_of(latest) = R(0)

\* C3: a company whose balance sheet was read and whose six core line items
\* all resolve to 0.0 has a fallback record, whatever its other line items
\* are, and its three percentages are 25.0.
C3_SixZeroIsFallback ==
    \A t \in DOMAIN balance_sheets :
        (~sources[t].raises /\ LatestOf(t) # EmptyDict
            /\ SixCoreZero(LatestOf(t))) =>
            /\ balance_sheets[t].fallback
            /\ \A i \in 1..Len(pcts) :
                   fund_holdings.holdings[i].ticker = t =>
                       AllThree(pcts[i], R(25))

\* C3 witness: the six core items are zero, accrued expenses or taxes
\* payable and a non-current liquid item are not, the market cap is
\* positive, and the holding got 25.0.
C3_Witness ==
    \E i \in 1..Len(pcts) :
        LET t == fund_holdings.holdings[i].ticker
        IN  /\ t \in DOMAIN sources
            /\ ~sources[t].raises
            /\ LatestOf(t) # EmptyDict
            /\ SixCoreZero(LatestOf(t))
            /\ \/ accrued_of(LatestOf(t)) # R(0)
               \/ taxes_of(LatestOf(t)) # R(0)
            /\ nc_investments_of(LatestOf(t)) # R(0)
            /\ RLess(R(0), balance_sheets[t].market_cap)
            /\ balance_sheets[t].fallback
            /\ AllThree(pcts[i], R(25))

\* the codes quoted in hundredths of a pound
MinorUnitCodes == {"GBp", "GBX"}

\* the conversion step has been applied
Converted == conv.at \in {"converted", "back"}

\* the table holds a strictly positive rate for the code
HasPositiveRate(code) ==
    code \in DOMAIN fx_rates /\ RLess(R(0), fx_rates[code])

\* C4 as claimed: for every currency code c, the pence codes included, the
\* conversion step with financial currency c and trading currency c leaves
\* the amount unchanged.
C4_Original_SameCodeNoOp ==
    (Converted /\ conv.fin_curr = conv.trade_curr) =>
        conv.out = conv.amount

\* C4: for every currency code c other than the pence codes GBp and GBX,
\* every amount and every rate table, the conversion step with financial
\* currency c and trading currency c leaves the amount unchanged.
C4_SameCodeNoOp ==
    (Converted /\ conv.fin_curr = conv.trade_curr
        /\ conv.trade_curr \notin MinorUnitCodes) =>
        conv.out = conv.amount

\* C4 witness: the step was applied to a non-zero amount with the same code
\* on both sides, a code whose rate is positive and differs from GBP's.
C4_Witness ==
    /\ Converted
    /\ conv.fin_curr = "EUR"
    /\ conv.trade_curr = "EUR"
    /\ HasPositiveRate("EUR")
    /\ HasPositiveRate("GBP")
    /\ conv.amount = Q(1, 3)
    /\ conv.out = Q(1, 3)

\* C5 as claimed: for any two codes A and B with strictly positive rates in
\* the table, converting from A to B and the result from B back to A gives
\* the original amount.
C5_Original_RoundTrip ==
    (conv.at = "back" /\ HasPositiveRate(conv.fin_curr)
        /\ HasPositiveRate(conv.trade_curr)) =>
        conv.back = conv.amount

\* C5: for any two codes A and B other than the pence codes GBp and GBX,
\* with strictly positive rates in the table, converting from A to B and the
\* result from B back to A gives the original amount (in exact arithmetic).
C5_RoundTrip ==
    (conv.at = "back" /\ HasPositiveRate(conv.fin_curr)
        /\ HasPositiveRate(conv.trade_curr)
        /\ conv.fin_curr \notin MinorUnitCodes
        /\ conv.trade_curr \notin MinorUnitCodes) =>
        conv.back = conv.amount

\* C5 witness: a round trip between two different currencies whose first leg
\* changed the amount.
C5_Witness ==
    /\ conv.at = "back"
    /\ conv.fin_curr = "GBP"
    /\ conv.trade_curr = "EUR"
    /\ HasPositiveRate("GBP")
    /\ HasPositiveRate("EUR")
    /\ conv.out # conv.amount
    /\ conv.back = conv.amount

\* the rate the claim resolves a code to: the table's, or 1.0
ResolvedRate(code) == IF code \in DOMAIN fx_rates THEN fx_rates[code] ELSE R(1)

\* the currency the market cap is in
TargetCurrency ==
    IF conv.trade_curr \in MinorUnitCodes THEN "GBP" ELSE conv.trade_curr

\* C10: when the financial currency and the market cap currency differ, the
\* converted amount is amount / r(from) * r(to), r(code) being the table's
\* rate or 1.0 for a code the table lacks; when either rate is not strictly
\* positive the amount is unchanged.
C10_ConversionFormula ==
    (Converted /\ conv.fin_curr # TargetCurrency) =>
        conv.out =
            IF RLess(R(0), ResolvedRate(conv.fin_curr))
                  /\ RLess(R(0), ResolvedRate(TargetCurrency))
            THEN RMul(RDiv(conv.amount, ResolvedRate(conv.fin_curr)),
                      ResolvedRate(TargetCurrency))
            ELSE conv.amount

\* C10 witness: an amount in a currency the table lacks was converted at
\* rate 1.0 into a currency whose rate is positive and not 1.
C10_Witness ==
    /\ Converted
    /\ conv.fin_curr = "JPY"
    /\ "JPY" \notin DOMAIN fx_rates
    /\ conv.trade_curr = "GBX"
    /\ HasPositiveRate("GBP")
    /\ conv.amount = R(100)
    /\ conv.out = RMul(R(100), fx_rates["GBP"])
    /\ conv.out # conv.amount

\* C10 second case: a rate that is not strictly positive leaves the amount
\* unchanged.
C10_WitnessSkipped ==
    /\ Converted
    /\ conv.fin_curr = "USD"
    /\ conv.trade_curr = "GBP"
    /\ "GBP" \in DOMAIN fx_rates
    /\ fx_rates["GBP"] = R(0)
    /\ conv.amount = R(100)
    /\ conv.out = R(100)

Perms(n) == {f \in [1..n -> 1..n] : \A i, j \in 1..n : f[i] = f[j] => i = j}

Unavailable(t) ==
    \/ t \notin DOMAIN sources
    \/ sources[t].raises
    \/ LatestOf(t) = EmptyDict

\* the bundle holding the record of ticker t only
OwnBundle(t) ==
    [x \in {t} \cap DOMAIN balance_sheets |-> balance_sheets[x]]

\* the three percentages of a per-holding entry are all p
EntryAllThree(e, p) ==
    /\ e.zakaatable_pct = p
    /\ e.zakaatable_pct_broad = p
    /\ e.zakaatable_pct_assets_only = p

\* C8: the pipeline stops early only when no rate table could be had,
\* before any ticker is fetched; whatever the data source answers per
\* ticker, every ticker gets a record, compute_pension_data and
\* compute_isa_data produce one entry per holding, in input order; the entry
\* of a holding whose record is unavailable has fallback = TRUE and 25.0
\* three times; and every entry is what it would be if the bundle held the
\* record of its own ticker only.
C8_OneResultPerHolding ==
    /\ pc \in {"fx", "fetch", "pension", "isa", "done", "aborted"}
    /\ pc = "aborted" => balance_sheets = EmptyDict
    /\ Cardinality(DOMAIN balance_sheets) <= Len(tickers)
    /\ pc \in {"pension", "isa", "done"} =>
           \A t \in 1..Len(tickers) : tickers[t] \in DOMAIN balance_sheets
    /\ Len(results) <= Len(fund_holdings.holdings)
    /\ Len(isa_results) <= Len(isa_holdings)
    /\ pc \in {"isa", "done"} => Len(results) = Len(fund_holdings.holdings)
    /\ pc = "done" => Len(isa_results) = Len(isa_holdings)
    /\ \A i \in 1..Len(results) :
           LET h == fund_holdings.holdings[i]
           IN  /\ results[i].ticker = h.ticker
               /\ results[i].weight = h.weight
               /\ Unavailable(h.ticker) =>
                      results[i].fallback /\ EntryAllThree(results[i], R(25))
               /\ results[i] =
                      pension_entry(h, OwnBundle(h.ticker), fx_rates)
    /\ \A i \in 1..Len(isa_results) :
           LET h == isa_holdings[i]
           IN  /\ isa_results[i].ticker = h.ticker
               /\ Unavailable(h.ticker) =>
                      isa_results[i].fallback
                          /\ EntryAllThree(isa_results[i], R(25))
               /\ isa_results[i] = isa_entry(h, OwnBundle(h.ticker), fx_rates)

\* C8 witness: the pipeline ended; fetch_company raised for the first
\* holding, which got the fallback, the second holding has no balance sheet
\* and got the fallback, or has a full record and got its own percentage.
C8_Witness ==
    /\ pc = "done"
    /\ Len(results) = 2
    /\ results[1].ticker # results[2].ticker
    /\ sources[results[1].ticker].raises
    /\ results[1].fallback
    /\ EntryAllThree(results[1], R(25))
    /\ ~Unavailable(results[2].ticker)
    /\ ~results[2].fallback
    /\ results[2].zakaatable_pct = R(9)

\* the percentages of the i-th fund holding come from a degradation path
Degraded(bs_data, t) ==
    \/ Unavailable(t)
    \/ SixCoreZero(LatestOf(t))
    \/ NoMarketCap(bs_data)

\* C9 as claimed: every per-holding entry whose percentages come from a
\* degradation path (record unavailable or empty, six core items zero,
\* market cap absent or not positive) carries fallback = TRUE.
C9_Original_FallbackFlagTravels ==
    /\ \A i \in 1..Len(results) :
           Degraded(RecordOf(i), results[i].ticker) => results[i].fallback
    /\ \A i \in 1..Len(isa_results) :
           Degraded(Get(balance_sheets, isa_results[i].ticker, EmptyDict),
                    isa_results[i].ticker) => isa_results[i].fallback

\* the record has balance sheet figures: it is not a fallback record
FullRecord(r) == "fallback" \in DOMAIN r /\ ~r.fallback

\* cash + receivables + inventory + other-current of a record
CurrentZakaatable(r) ==
    RAdd(RAdd(r.assets.cash_and_sti, r.assets.receivables),
         RAdd(r.assets.inventory, r.assets.other_current))

\* payables + current-debt + accrued + taxes of a record
DeductibleLiabilities(r) ==
    RAdd(RAdd(r.liabilities.payables, r.liabilities.current_debt),
         RAdd(r.liabilities.accrued_expenses, r.liabilities.taxes_payable))

\* non-current investments + deferred tax assets + receivables of a record
NonCurrentLiquid(r) ==
    RAdd(RAdd(r.assets_broad.nc_investments,
              r.assets_broad.nc_deferred_tax_asset),
         r.assets_broad.nc_receivables)

\* the three net amounts of a record follow from its line items
NetAmounts(r) ==
    /\ r.net_zakaatable =
           RMax(RSub(CurrentZakaatable(r), DeductibleLiabilities(r)), R(0))
    /\ r.net_zakaatable_broad =
           RMax(RSub(RAdd(CurrentZakaatable(r), NonCurrentLiquid(r)),
                     DeductibleLiabilities(r)), R(0))
    /\ r.net_zakaatable_assets_only =
           RAdd(CurrentZakaatable(r), NonCurrentLiquid(r))

\* net / market_cap * 100 clamped to [0, 100], to 4 decimals
ClampedRatio(net, market_cap) ==
    Round4(RMax(R(0), RMin(RMul(RDiv(net, market_cap), R(100)), R(100))))

\* C11 as stated: every non-fallback record carries the three net amounts,
\* and whenever its two currency codes are equal its strict percentage is
\* net / market_cap * 100 clamped to [0, 100].
C11_Original_NetAndStrictPct ==
    \A i \in 1..Len(pcts) :
        FullRecord(RecordOf(i)) =>
            /\ NetAmounts(RecordOf(i))
            /\ RecordOf(i).financial_currency = RecordOf(i).trading_currency
                   => /\ RecordOf(i).market_cap # R(0)
                      /\ pcts[i].strict =
                             ClampedRatio(RecordOf(i).net_zakaatable,
                                          RecordOf(i).market_cap)

\* C11: every non-fallback record carries strict net = max(current
\* zakaatable - deductible liabilities, 0), broad net = max(current
\* zakaatable + non-current liquid - deductible liabilities, 0) and
\* assets-only = current zakaatable + non-current liquid; when its two
\* currency codes are equal and not a minor-unit code and its market cap is
\* positive, its strict percentage is net / market_cap * 100 clamped to
\* [0, 100]; when its market cap is zero or negative it is 25.0.
C11_NetAndStrictPct ==
    \A i \in 1..Len(pcts) :
        FullRecord(RecordOf(i)) =>
            /\ NetAmounts(RecordOf(i))
            /\ (/\ RecordOf(i).financial_currency =
                       RecordOf(i).trading_currency
                /\ RecordOf(i).trading_currency \notin MinorUnitCodes
                /\ RLess(R(0), RecordOf(i).market_cap))
                   => pcts[i].strict =
                          ClampedRatio(RecordOf(i).net_zakaatable,
                                       RecordOf(i).market_cap)
            /\ RLeq(RecordOf(i).market_cap, R(0))
                   => pcts[i].strict = R(25)

\* C11 witness: cash 100, receivables 20, payables 30 and a market cap of
\* 1000 in one currency gave a net amount of 90 and 9.0 percent.
C11_Witness ==
    \E i \in 1..Len(pcts) :
        /\ FullRecord(RecordOf(i))
        /\ RecordOf(i).financial_currency = RecordOf(i).trading_currency
        /\ RecordOf(i).assets.cash_and_sti = R(100)
        /\ RecordOf(i).assets.receivables = R(20)
        /\ RecordOf(i).liabilities.payables = R(30)
        /\ RecordOf(i).market_cap = R(1000)
        /\ RecordOf(i).net_zakaatable = R(90)
        /\ pcts[i].strict = R(9)

\* C11 witness: liabilities exceed the current assets, so the strict net
\* amount is floored at 0 while the assets-only amount is not.
C11_WitnessFloored ==
    \E i \in 1..Len(pcts) :
        /\ FullRecord(RecordOf(i))
        /\ RLess(CurrentZakaatable(RecordOf(i)),
                 DeductibleLiabilities(RecordOf(i)))
        /\ RecordOf(i).net_zakaatable = R(0)
        /\ RLess(R(0), RecordOf(i).net_zakaatable_assets_only)
        /\ RLess(R(0), RecordOf(i).market_cap)
        /\ pcts[i].strict = R(0)

\* sum over the holdings from the i-th on of weight / 100 * holding_pct
RECURSIVE SumOfShares(_, _, _)
SumOfShares(rs, key, i) ==
    IF i > Len(rs) THEN R(0)
    ELSE RAdd(RMul(RDiv(rs[i].weight, R(100)), rs[i][key]),
              SumOfShares(rs, key, i + 1))

\* sum of the weights of the holdings from the i-th on
RECURSIVE SumOfWeights(_, _)
SumOfWeights(rs, i) ==
    IF i > Len(rs) THEN R(0)
    ELSE RAdd(rs[i].weight, SumOfWeights(rs, i + 1))

\* the cash percentage and the weights are not negative and sum to 100
ValidAllocation ==
    /\ RLeq(R(0), fund_holdings.fund_cash_pct)
    /\ \A i \in 1..Len(results) : RLeq(R(0), results[i].weight)
    /\ RAdd(fund_holdings.fund_cash_pct, SumOfWeights(results, 1)) = R(100)

\* the fund-level key and the per-holding key it is computed from
FundKeys ==
    { <<"fund_zakaatable_pct", "zakaatable_pct">>,
      <<"fund_zakaatable_pct_broad", "zakaatable_pct_broad">>,
      <<"fund_zakaatable_pct_assets_only", "zakaatable_pct_assets_only">> }

\* C12: each fund-level percentage is cash_pct plus the sum over the
\* holdings of weight / 100 * holding_pct, to 4 decimals, whatever the
\* weights are; and when the cash percentage and the weights are not
\* negative and sum to 100 it lies in [0, 100].
C12_FundPctFormulaAndRange ==
    pc \in {"isa", "done", "aggregated"} =>
        \A k \in FundKeys :
            /\ pension_data[k[1]] =
                   Round4(RAdd(fund_holdings.fund_cash_pct,
                               SumOfShares(results, k[2], 1)))
            /\ ValidAllocation => InRange(pension_data[k[1]])

\* C12 witness: weights 60 and 30, cash 10 and strict percentages 9.0 and
\* 50.0 gave a fund-level strict percentage of 30.4.
C12_Witness ==
    /\ pc = "aggregated"
    /\ Len(results) = 2
    /\ results[1].weight = R(60) /\ results[1].zakaatable_pct = R(9)
    /\ results[2].weight = R(30) /\ results[2].zakaatable_pct = R(50)
    /\ fund_holdings.fund_cash_pct = R(10)
    /\ ValidAllocation
    /\ pension_data.fund_zakaatable_pct = Q(152, 5)

\* C12 witness: weights that sum to more than 100 gave a fund-level
\* percentage above 100, neither normalised nor clamped.
C12_WitnessUnclamped ==
    /\ pc = "aggregated"
    /\ ~ValidAllocation
    /\ RLess(R(100), pension_data.fund_zakaatable_pct)

\* C12 witness: a valid allocation whose holdings are all at 100 percent
\* gave exactly 100.
C12_WitnessFull ==
    /\ pc = "aggregated"
    /\ Len(results) >= 1
    /\ ValidAllocation
    /\ pension_data.fund_zakaatable_pct = R(100)
====
